---- MODULE Spec2Model ----
(***************************************************************************)
(* The two demo notebooks of the gallery as state machines.                *)
(*                                                                         *)
(*   fractal sampler  src/unnamed/part_000 (mandelbrot section, bokeh)     *)
(*   graph loader     src/examples/gallery/demos/matplotlib/               *)
(*                    network_graph.ipynb                                  *)
(*                                                                         *)
(* Each notebook runs in a kernel of its own.  A kernel's state is the     *)
(* set of names bound so far and their values; one action is one           *)
(* statement of a code cell (one panel of one entry for the dict           *)
(* comprehension of the fractal sampler).                                  *)
(*                                                                         *)
(* Units.  Pixel values are naturals (the array holds iteration counts     *)
(* cast to float32).  Coordinates given in the source (-0.3, 0.45, the     *)
(* image bounds +-0.5) are held in hundredths, so linspace and the         *)
(* comparison with the bounds are exact.  A percentile is held times 100   *)
(* (q/100 of an integer difference is a multiple of 1/100).  The position  *)
(* of a pixel centre is held times twice the number of pixels along its    *)
(* axis (the centre of column c of C columns is l + (r-l)(2c-1)/(2C)).     *)
(***************************************************************************)
EXTENDS Integers, Sequences, FiniteSets, TLC

\* ------------------------------------------------------------------------
\* Bounds of the model.
\* ------------------------------------------------------------------------

\* The side of the array served at the URL is 0..MaxN.
MaxN == 9

\* A pixel value is in 0..MaxVal.
MaxVal == 2

\* The nodes file has 0..MaxNodes rows, the edges file 0..MaxEdges rows.
MaxNodes == 2

MaxEdges == 1

\* The "Declaring data" cell of the graph loader is executed at most MaxLoads
\* times in one kernel.
MaxLoads == 2

\* ------------------------------------------------------------------------
\* numpy
\* ------------------------------------------------------------------------

Min(a, b) == IF a < b THEN a ELSE b

\* np.linspace(lo, hi, n): n evenly spaced values, both ends included
\* (lo and hi in hundredths).
Linspace(lo, hi, n) == [i \in 1..n |-> lo + ((i - 1) * (hi - lo)) \div (n - 1)]

\* seq[::step] of Python: the elements at the 0-based indices 0, step,
\* 2 step, ... below len(seq).
Stride(seq, step) ==
  LET kept == {i \in 0..(Len(seq) - 1) : i % step = 0}
  IN  [n \in 1..Cardinality(kept) |-> seq[(n - 1) * step + 1]]

Insert(x, s) ==
  LET pos == Cardinality({i \in 1..Len(s) : s[i] <= x})
  IN  SubSeq(s, 1, pos) \o <<x>> \o SubSeq(s, pos + 1, Len(s))

RECURSIVE Sort(_)
Sort(s) == IF s = <<>> THEN <<>> ELSE Insert(Head(s), Sort(Tail(s)))

\* np.percentile(z, q), times 100, for a non-empty z: the default linear
\* interpolation between the two order statistics around the 0-based
\* virtual index q/100 (n-1).
Percentile(z, q) ==
  LET s    == Sort(z)
      n    == Len(s)
      rank == q * (n - 1)
      lo   == rank \div 100
      hi   == Min(lo + 1, n - 1)
  IN  100 * s[lo + 1] + (rank % 100) * (s[hi + 1] - s[lo + 1])

\* ------------------------------------------------------------------------
\* The resource at http://assets.holoviews.org/data/mandelbrot.npy
\* ------------------------------------------------------------------------

\* The fixed pattern of values.
Pattern(r, c) == (r + c) % (MaxVal + 1)

\* The values at the kept positions of an array whose downsampled side is K:
\* every value for K <= 2, the two extreme values for a larger K.
KeptValues(K) == IF K <= 2 THEN 0..MaxVal ELSE {0, MaxVal}

\* The choices of the values at the kept positions (those whose row and
\* column are multiples of 4) of an array of side N, as a K x K array: every
\* choice of KeptValues for the smallest side of each downsampled size
\* (N = 1, 5, 9, ...), the fixed pattern for the other sides.
KeptChoices(N) ==
  LET K == (N + 3) \div 4
  IN  IF N % 4 = 1 THEN [1..K -> [1..K -> KeptValues(K)]]
      ELSE {[i \in 1..K |-> [j \in 1..K |-> Pattern(4 * i - 3, 4 * j - 3)]]}

\* The arrays the URL may serve: every side 0..MaxN, every choice of the
\* values at the kept positions, and the fixed pattern elsewhere.
Payloads ==
  UNION { { [r \in 1..N |-> [c \in 1..N |->
               IF (r - 1) % 4 = 0 /\ (c - 1) % 4 = 0
               THEN f[(r - 1) \div 4 + 1][(c - 1) \div 4 + 1]
               ELSE Pattern(r, c)]]
            : f \in KeptChoices(N) }
          : N \in 0..MaxN }

\* Three of them: the empty array, the array of one pixel and the largest
\* array, with the fixed pattern everywhere.
Patterns ==
  { [r \in 1..N |-> [c \in 1..N |-> Pattern(r, c)]] : N \in {0, 1, MaxN} }

\* ------------------------------------------------------------------------
\* holoviews elements and operations
\* ------------------------------------------------------------------------

\* hv.Image(array): the array with the default bounds (-0.5, -0.5, 0.5, 0.5);
\* row 1 is the top row.
Image(arr) == [data |-> arr, l |-> -50, b |-> -50, r |-> 50, t |-> 50]

NoImage == [data |-> <<>>, l |-> 0, b |-> 0, r |-> 0, t |-> 0]

NRows(img) == Len(img.data)

NCols(img) == IF Len(img.data) = 0 THEN 0 ELSE Len(img.data[1])

InX(img, x) == img.l <= x /\ x <= img.r

InY(img, y) == img.b <= y /\ y <= img.t

\* The row (column) whose cell holds the coordinate y (x), 1-based.
RowOf(img, y) ==
  Min(((img.t - y) * NRows(img)) \div (img.t - img.b), NRows(img) - 1) + 1

ColOf(img, x) ==
  Min(((x - img.l) * NCols(img)) \div (img.r - img.l), NCols(img) - 1) + 1

\* The centre of column c, times 2 NCols; the centre of row r, times 2 NRows.
XPos(img, c) == 2 * NCols(img) * img.l + (img.r - img.l) * (2 * c - 1)

YPos(img, r) == 2 * NRows(img) * img.t - (img.t - img.b) * (2 * r - 1)

\* Image.sample(y=y): the cross-section at y as (x, z) rows, one per column,
\* in column order; nothing for a y outside the bounds or an empty image.
SampleY(img, y) ==
  IF NRows(img) = 0 \/ ~InY(img, y) THEN <<>>
  ELSE [c \in 1..NCols(img) |-> <<XPos(img, c), img.data[RowOf(img, y)][c]>>]

\* Image.sample(x=x): the cross-section at x as (y, z) rows, one per row.
SampleX(img, x) ==
  IF NRows(img) = 0 \/ ~InX(img, x) THEN <<>>
  ELSE [r \in 1..NRows(img) |-> <<YPos(img, r), img.data[r][ColOf(img, x)]>>]

\* Image.sample([(x, y), ...]): one (x, y, z) row per coordinate, snapped to
\* the centre of the cell that holds it.
RECURSIVE SampleAt(_, _)
SampleAt(img, coords) ==
  IF coords = <<>> THEN <<>>
  ELSE LET x == Head(coords)[1]
           y == Head(coords)[2]
       IN  (IF NRows(img) = 0 \/ ~InX(img, x) \/ ~InY(img, y) THEN <<>>
            ELSE << <<XPos(img, ColOf(img, x)), YPos(img, RowOf(img, y)),
                      img.data[RowOf(img, y)][ColOf(img, x)]>> >>)
           \o SampleAt(img, Tail(coords))

\* sample['z']: the value column (the last one) of a sample.
Z(s) == [i \in 1..Len(s) |-> s[i][Len(s[i])]]

\* hv.operation.threshold(img, level=level): a new image, 1 where the value
\* is above the level and 0 elsewhere (level times 100), and the level it
\* was made with.
Threshold(img, level) ==
  [level |-> level,
   image |-> [img EXCEPT !.data =
                [r \in 1..NRows(img) |-> [c \in 1..NCols(img) |->
                   IF 100 * img.data[r][c] > level THEN 1 ELSE 0]]]]

\* hv.operation.contours(img, levels=levels): the iso-lines of img at the
\* levels, held as the levels and the image they are drawn from.
Contours(img, levels) == [levels |-> levels, of |-> img.data]

\* HoloMap(layouts, kdims='Y').collate(): the map of four-panel layouts
\* turned into a layout of four maps, each keyed like the original.
Collate(hmap) ==
  << [y \in DOMAIN hmap |-> hmap[y].overlay],
     [y \in DOMAIN hmap |-> hmap[y].curve],
     [y \in DOMAIN hmap |-> hmap[y].threshold],
     [y \in DOMAIN hmap |-> hmap[y].contours] >>

\* layout.cols(n): the panels of the layout in a grid of n columns, filled
\* row by row.
Cols(layout, n) == [cols |-> n, panels |-> layout]

\* ------------------------------------------------------------------------
\* State
\* ------------------------------------------------------------------------

VARIABLES
  resource,     \* the array served at the URL
  fpc,          \* the statement the fractal sampler executes next
  ffault,       \* the unhandled fault that ended the run, or "none"
  fbackend,     \* the plotting backend of the fractal sampler's kernel
  fbound,       \* the names assigned so far in the fractal sampler's kernel
  fetches,      \* the number of urlopen calls made
  renders,      \* the number of times the composition was displayed
  raw,          \* raw (here already decoded)
  array,        \* array
  dots,         \* dots
  fractal,      \* fractal
  k,            \* the index of the comprehension's current y
  entry,        \* the panels of the current y evaluated so far
  building,     \* the dict the comprehension has built so far
  calls,        \* for each y, the results of fractal.sample(y=y) in call order
  layouts,      \* layouts
  composition,  \* composition
  edgesFile,    \* the rows of ../../../assets/fb_edges.csv
  nodesFile,    \* the rows of ../../../assets/fb_nodes.csv
  gpc,          \* the statement the graph loader executes next
  gfault,       \* the unhandled fault that ended the run, or "none"
  gbackend,     \* the plotting backend of the graph loader's kernel
  gbound,       \* the names assigned so far in the graph loader's kernel
  edges_df,     \* edges_df
  nodes_df,     \* nodes_df
  fb_nodes,     \* fb_nodes
  fb_graph,     \* fb_graph
  loads,        \* the (node count, edge count) of every graph constructed
  gshown        \* the number of times the graph was displayed

fvars == <<fpc, ffault, fbackend, fbound, fetches, renders, raw, array, dots,
           fractal, k, entry, building, calls, layouts, composition>>

gvars == <<gpc, gfault, gbackend, gbound, edges_df, nodes_df, fb_nodes,
           fb_graph, loads, gshown>>

env == <<resource, edgesFile, nodesFile>>

vars == <<env, fvars, gvars>>

EmptyMap == [x \in {} |-> 0]

NoEntry == [overlay |-> [image |-> <<>>, points |-> <<>>], curve |-> <<>>,
            threshold |-> [level |-> 0, image |-> NoImage], contours |-> [levels |-> <<>>, of |-> <<>>]]

NoComposition == [cols |-> 0, panels |-> <<>>]

\* ------------------------------------------------------------------------
\* The fractal sampler
\* ------------------------------------------------------------------------

FStart ==
  /\ fpc = "imports"
  /\ ffault = "none"
  /\ fbackend = "none"
  /\ fbound = {}
  /\ fetches = 0
  /\ renders = 0
  /\ raw = <<>>
  /\ array = <<>>
  /\ dots = <<>>
  /\ fractal = NoImage
  /\ k = 0
  /\ entry = NoEntry
  /\ building = EmptyMap
  /\ calls = EmptyMap
  /\ layouts = EmptyMap
  /\ composition = NoComposition

\* Mutant of Ys: the slices reach past the image, np.linspace(-0.6, 0.6, 11).
YsWide == Linspace(-60, 60, 11)

\* np.linspace(-0.3, 0.3, 11): the slice coordinates.
Ys == Linspace(-30, 30, 11)

\* np.linspace(-0.45, 0.45, 19): the x coordinates of the sampled points.
Dots == Linspace(-45, 45, 19)

\* Mutant of Downsample: only the complete blocks of 4 are kept.
DownsampleFloor(a) ==
  [i \in 1..(Len(a) \div 4) |->
     [j \in 1..(Len(a) \div 4) |-> a[4 * (i - 1) + 1][4 * (j - 1) + 1]]]

\* np.load(...).astype(np.float32)[::4,::4]
Downsample(a) == Stride([r \in 1..Len(a) |-> Stride(a[r], 4)], 4)

\* fractal.sample([(i,y) for i in dots])
PointsSample(img, ds, y) == SampleAt(img, [i \in 1..Len(ds) |-> <<ds[i], y>>])

\* fractal.sample(y=y)
SliceSample(img, y) == SampleY(img, y)

\* Mutant of ThresholdLevel: the 9th percentile in place of the 90th.
ThresholdLevelLow(s) == Percentile(Z(s), 9)

\* np.percentile(fractal.sample(y=y)['z'], 90), of the sample s
ThresholdLevel(s) == Percentile(Z(s), 90)

\* np.percentile(fractal.sample(y=y)['z'], 60), of the sample s
ContourLevel(s) == Percentile(Z(s), 60)

\* The call fractal.sample(y=y) recorded.
Called(y, s) ==
  IF y \in DOMAIN calls THEN [calls EXCEPT ![y] = Append(@, s)]
  ELSE calls @@ (y :> <<s>>)

\* An unhandled exception ends the run: nothing else is executed.
Fault(what) ==
  /\ fpc' = "fault"
  /\ ffault' = what

\* Cell 1: the imports and hv.extension('bokeh').
FImports ==
  /\ fpc = "imports"
  /\ fbackend' = "bokeh"
  /\ fpc' = "fetch"
  /\ UNCHANGED <<ffault, fbound, fetches, renders, raw, array, dots, fractal,
                 k, entry, building, calls, layouts, composition>>
  /\ UNCHANGED <<env, gvars>>

\* The imports of the cell (io, and urlopen from urllib2 or, that import
\* failing, from urllib.request), then raw = urlopen(...).read(), the resource
\* being served.
FetchOk ==
  /\ fpc = "fetch"
  /\ fetches' = fetches + 1
  /\ raw' = resource
  /\ fbound' = fbound \cup {"raw"}
  /\ fpc' = "decode"
  /\ UNCHANGED <<ffault, fbackend, renders, array, dots, fractal, k, entry,
                 building, calls, layouts, composition>>
  /\ UNCHANGED <<env, gvars>>

\* Mutant of FetchFail: the failed fetch is tried again.
FetchRetry ==
  /\ fpc = "fetch"
  /\ fetches < 3
  /\ fetches' = fetches + 1
  /\ UNCHANGED <<fpc, ffault, fbackend, fbound, renders, raw, array, dots,
                 fractal, k, entry, building, calls, layouts, composition>>
  /\ UNCHANGED <<env, gvars>>

\* raw = urlopen(...).read(), the resource being unavailable: urlopen
\* raises, and nothing handles it.
FetchFail ==
  /\ fpc = "fetch"
  /\ fetches' = fetches + 1
  /\ Fault("fetch")
  /\ UNCHANGED <<fbackend, fbound, renders, raw, array, dots, fractal, k,
                 entry, building, calls, layouts, composition>>
  /\ UNCHANGED <<env, gvars>>

\* array = np.load(io.BytesIO(raw)).astype(np.float32)[::4,::4]
Decode ==
  /\ fpc = "decode"
  /\ array' = Downsample(raw)
  /\ fbound' = fbound \cup {"array"}
  /\ fpc' = "declare"
  /\ UNCHANGED <<ffault, fbackend, fetches, renders, raw, dots, fractal, k,
                 entry, building, calls, layouts, composition>>
  /\ UNCHANGED <<env, gvars>>

\* dots = np.linspace(-0.45, 0.45, 19); fractal = hv.Image(array); and the
\* comprehension takes its first y.
Declare ==
  /\ fpc = "declare"
  /\ dots' = Dots
  /\ fractal' = Image(array)
  /\ fbound' = fbound \cup {"dots", "fractal"}
  /\ k' = 1
  /\ fpc' = "overlay"
  /\ UNCHANGED <<ffault, fbackend, fetches, renders, raw, array, entry,
                 building, calls, layouts, composition>>
  /\ UNCHANGED <<env, gvars>>

\* fractal * hv.Points(fractal.sample([(i,y) for i in dots]))
OverlayPanel ==
  /\ fpc = "overlay"
  /\ entry' = [NoEntry EXCEPT !.overlay =
                 [image |-> fractal.data,
                  points |-> PointsSample(fractal, dots, Ys[k])]]
  /\ fpc' = "curve"
  /\ UNCHANGED <<ffault, fbackend, fbound, fetches, renders, raw, array, dots,
                 fractal, k, building, calls, layouts, composition>>
  /\ UNCHANGED <<env, gvars>>

\* Mutant of CurvePanel: the sampled row is sorted in place.
CurvePanelSortsRow ==
  /\ fpc = "curve"
  /\ LET s == SliceSample(fractal, Ys[k])
     IN  /\ entry' = [entry EXCEPT !.curve = s]
         /\ calls' = Called(Ys[k], s)
         /\ array' = IF s = <<>> THEN array
                     ELSE [array EXCEPT ![RowOf(fractal, Ys[k])] = Sort(@)]
  /\ fractal' = [fractal EXCEPT !.data = array']
  /\ fpc' = "threshold"
  /\ UNCHANGED <<ffault, fbackend, fbound, fetches, renders, raw, dots, k,
                 building, layouts, composition>>
  /\ UNCHANGED <<env, gvars>>

\* Mutant of CurvePanel: the cross-section is taken at x = y, fractal.sample(x=y).
CurvePanelX ==
  /\ fpc = "curve"
  /\ LET s == SampleX(fractal, Ys[k])
     IN  /\ entry' = [entry EXCEPT !.curve = s]
         /\ calls' = Called(Ys[k], s)
  /\ fpc' = "threshold"
  /\ UNCHANGED <<ffault, fbackend, fbound, fetches, renders, raw, array, dots,
                 fractal, k, building, layouts, composition>>
  /\ UNCHANGED <<env, gvars>>

\* + fractal.sample(y=y)
CurvePanel ==
  /\ fpc = "curve"
  /\ LET s == SliceSample(fractal, Ys[k])
     IN  /\ entry' = [entry EXCEPT !.curve = s]
         /\ calls' = Called(Ys[k], s)
  /\ fpc' = "threshold"
  /\ UNCHANGED <<ffault, fbackend, fbound, fetches, renders, raw, array, dots,
                 fractal, k, building, layouts, composition>>
  /\ UNCHANGED <<env, gvars>>

\* Mutant of ThresholdPanel: the threshold is written into the array of
\* fractal instead of a new image.
ThresholdPanelInPlace ==
  /\ fpc = "threshold"
  /\ LET s == SliceSample(fractal, Ys[k])
     IN  /\ calls' = Called(Ys[k], s)
         /\ IF s = <<>>
            THEN /\ Fault("empty_sample")
                 /\ UNCHANGED <<entry, array, fractal>>
            ELSE /\ entry' = [entry EXCEPT
                                !.threshold = Threshold(fractal, ThresholdLevel(s))]
                 /\ array' = entry'.threshold.image.data
                 /\ fractal' = entry'.threshold.image
                 /\ fpc' = "contours"
                 /\ UNCHANGED ffault
  /\ UNCHANGED <<fbackend, fbound, fetches, renders, raw, dots, k, building,
                 layouts, composition>>
  /\ UNCHANGED <<env, gvars>>

\* + hv.operation.threshold(fractal,
\*       level=np.percentile(fractal.sample(y=y)['z'], 90))
\* np.percentile raises on an empty sample.
ThresholdPanel ==
  /\ fpc = "threshold"
  /\ LET s == SliceSample(fractal, Ys[k])
     IN  /\ calls' = Called(Ys[k], s)
         /\ IF s = <<>>
            THEN /\ Fault("empty_sample")
                 /\ UNCHANGED entry
            ELSE /\ entry' = [entry EXCEPT
                                !.threshold = Threshold(fractal, ThresholdLevel(s))]
                 /\ fpc' = "contours"
                 /\ UNCHANGED ffault
  /\ UNCHANGED <<fbackend, fbound, fetches, renders, raw, array, dots, fractal,
                 k, building, layouts, composition>>
  /\ UNCHANGED <<env, gvars>>

\* + hv.operation.contours(fractal,
\*       levels=[np.percentile(fractal.sample(y=y)['z'], 60)])
\* and the entry y: (the four panels) enters the dict; the comprehension
\* takes its next y, or is exhausted.
ContoursPanel ==
  /\ fpc = "contours"
  /\ LET s == SliceSample(fractal, Ys[k])
     IN  /\ calls' = Called(Ys[k], s)
         /\ IF s = <<>>
            THEN /\ Fault("empty_sample")
                 /\ UNCHANGED <<entry, building, k>>
            ELSE /\ entry' = [entry EXCEPT
                                !.contours = Contours(fractal, <<ContourLevel(s)>>)]
                 /\ building' = (Ys[k] :> entry') @@ building
                 /\ k' = k + 1
                 /\ fpc' = IF k = Len(Ys) THEN "layouts" ELSE "overlay"
                 /\ UNCHANGED ffault
  /\ UNCHANGED <<fbackend, fbound, fetches, renders, raw, array, dots, fractal,
                 layouts, composition>>
  /\ UNCHANGED <<env, gvars>>

\* layouts = {...}: the dict the comprehension built is bound.
Layouts ==
  /\ fpc = "layouts"
  /\ layouts' = building
  /\ fbound' = fbound \cup {"layouts"}
  /\ fpc' = "compose"
  /\ UNCHANGED <<ffault, fbackend, fetches, renders, raw, array, dots, fractal,
                 k, entry, building, calls, composition>>
  /\ UNCHANGED <<env, gvars>>

\* Mutant of Compose: .cols(2) is left out, and the layout keeps its default
\* of 4 columns.
ComposeDefaultCols ==
  /\ fpc = "compose"
  /\ composition' = Cols(Collate(layouts), 4)
  /\ fbound' = fbound \cup {"composition"}
  /\ fpc' = "options"
  /\ UNCHANGED <<ffault, fbackend, fetches, renders, raw, array, dots, fractal,
                 k, entry, building, calls, layouts>>
  /\ UNCHANGED <<env, gvars>>

\* composition = hv.HoloMap(layouts, kdims='Y').collate().cols(2)
Compose ==
  /\ fpc = "compose"
  /\ composition' = Cols(Collate(layouts), 2)
  /\ fbound' = fbound \cup {"composition"}
  /\ fpc' = "options"
  /\ UNCHANGED <<ffault, fbackend, fetches, renders, raw, array, dots, fractal,
                 k, entry, building, calls, layouts>>
  /\ UNCHANGED <<env, gvars>>

\* composition.options(...), the last expression of the cell: the styled
\* composition is displayed.
Render ==
  /\ fpc = "options"
  /\ renders' = renders + 1
  /\ fpc' = "done"
  /\ UNCHANGED <<ffault, fbackend, fbound, fetches, raw, array, dots, fractal,
                 k, entry, building, calls, layouts, composition>>
  /\ UNCHANGED <<env, gvars>>

FNext ==
  \/ FImports
  \/ FetchOk
  \/ FetchFail
  \/ Decode
  \/ Declare
  \/ OverlayPanel
  \/ CurvePanel
  \/ ThresholdPanel
  \/ ContoursPanel
  \/ Layouts
  \/ Compose
  \/ Render

\* ------------------------------------------------------------------------
\* The files of the graph loader
\* ------------------------------------------------------------------------

\* The nodes files: 0..MaxNodes rows (x, y, index), the index being the row
\* number and x and y being 0 or 1.
NodeFiles ==
  UNION { { [i \in 1..n |-> <<f[i][1], f[i][2], i>>]
            : f \in [1..n -> (0..1) \X (0..1)] }
          : n \in 0..MaxNodes }

\* The edges files: 0..MaxEdges rows (start, end) of node indices, which need
\* not be indices of the nodes file.
EdgeFiles ==
  UNION { [1..n -> (1..MaxNodes) \X (1..MaxNodes)] : n \in 0..MaxEdges }

\* ------------------------------------------------------------------------
\* The graph loader
\* ------------------------------------------------------------------------

NoGraph == [edges |-> <<>>, nodes |-> <<>>, label |-> "", xrange |-> <<>>,
            yrange |-> <<>>, options |-> {}]

GStart ==
  /\ gpc = "imports"
  /\ gfault = "none"
  /\ gbackend = "none"
  /\ gbound = {}
  /\ edges_df = <<>>
  /\ nodes_df = <<>>
  /\ fb_nodes = <<>>
  /\ fb_graph = NoGraph
  /\ loads = <<>>
  /\ gshown = 0

\* Rows are ordered by their key dimensions, left to right.
RowLeq(a, b) ==
  \/ a[1] < b[1]
  \/ a[1] = b[1] /\ a[2] < b[2]
  \/ a[1] = b[1] /\ a[2] = b[2] /\ a[3] <= b[3]

InsertRow(x, s) ==
  LET pos == Cardinality({i \in 1..Len(s) : RowLeq(s[i], x)})
  IN  SubSeq(s, 1, pos) \o <<x>> \o SubSeq(s, pos + 1, Len(s))

\* hv.Nodes(df).sort(): the rows of the table in the order of (x, y, index).
RECURSIVE SortRows(_)
SortRows(s) == IF s = <<>> THEN <<>> ELSE InsertRow(Head(s), SortRows(Tail(s)))

\* hv.Graph((edges, nodes), label=label)
Graph(edges, nodes, label) ==
  [edges |-> edges, nodes |-> nodes, label |-> label, xrange |-> <<>>,
   yrange |-> <<>>, options |-> {}]

\* Mutant of GImports: the graph loader runs in the kernel of the fractal
\* sampler, and hv.extension('matplotlib') replaces that kernel's backend.
GImportsSharedKernel ==
  /\ gpc = "imports"
  /\ gbackend' = "matplotlib"
  /\ fbackend' = "matplotlib"
  /\ gpc' = "read_edges"
  /\ UNCHANGED <<gfault, gbound, edges_df, nodes_df, fb_nodes, fb_graph,
                 loads, gshown>>
  /\ UNCHANGED <<env, fpc, ffault, fbound, fetches, renders, raw, array, dots,
                 fractal, k, entry, building, calls, layouts, composition>>

\* Cell 1: the imports, hv.extension('matplotlib') and %output fig='svg'.
GImports ==
  /\ gpc = "imports"
  /\ gbackend' = "matplotlib"
  /\ gpc' = "read_edges"
  /\ UNCHANGED <<gfault, gbound, edges_df, nodes_df, fb_nodes, fb_graph,
                 loads, gshown>>
  /\ UNCHANGED <<env, fvars>>

\* Mutant of ReadEdgesOk: the rows read are appended to the table of the
\* previous execution.
ReadEdgesAppend ==
  /\ gpc = "read_edges"
  /\ edges_df' = edges_df \o edgesFile
  /\ gbound' = gbound \cup {"edges_df"}
  /\ gpc' = "read_nodes"
  /\ UNCHANGED <<gfault, gbackend, nodes_df, fb_nodes, fb_graph, loads, gshown>>
  /\ UNCHANGED <<env, fvars>>

\* edges_df = pd.read_csv('../../../assets/fb_edges.csv')
ReadEdgesOk ==
  /\ gpc = "read_edges"
  /\ edges_df' = edgesFile
  /\ gbound' = gbound \cup {"edges_df"}
  /\ gpc' = "read_nodes"
  /\ UNCHANGED <<gfault, gbackend, nodes_df, fb_nodes, fb_graph, loads, gshown>>
  /\ UNCHANGED <<env, fvars>>

\* The same, the file being unreadable: read_csv raises, nothing handles it.
ReadEdgesFail ==
  /\ gpc = "read_edges"
  /\ gpc' = "fault"
  /\ gfault' = "read_edges"
  /\ UNCHANGED <<gbackend, gbound, edges_df, nodes_df, fb_nodes, fb_graph,
                 loads, gshown>>
  /\ UNCHANGED <<env, fvars>>

\* nodes_df = pd.read_csv('../../../assets/fb_nodes.csv')
ReadNodesOk ==
  /\ gpc = "read_nodes"
  /\ nodes_df' = nodesFile
  /\ gbound' = gbound \cup {"nodes_df"}
  /\ gpc' = "sort_nodes"
  /\ UNCHANGED <<gfault, gbackend, edges_df, fb_nodes, fb_graph, loads, gshown>>
  /\ UNCHANGED <<env, fvars>>

\* The same, the file being unreadable.
ReadNodesFail ==
  /\ gpc = "read_nodes"
  /\ gpc' = "fault"
  /\ gfault' = "read_nodes"
  /\ UNCHANGED <<gbackend, gbound, edges_df, nodes_df, fb_nodes, fb_graph,
                 loads, gshown>>
  /\ UNCHANGED <<env, fvars>>

\* fb_nodes = hv.Nodes(nodes_df).sort()
SortNodes ==
  /\ gpc = "sort_nodes"
  /\ fb_nodes' = SortRows(nodes_df)
  /\ gbound' = gbound \cup {"fb_nodes"}
  /\ gpc' = "graph"
  /\ UNCHANGED <<gfault, gbackend, edges_df, nodes_df, fb_graph, loads, gshown>>
  /\ UNCHANGED <<env, fvars>>

\* fb_graph = hv.Graph((edges_df, fb_nodes), label='Facebook Circles')
BuildGraph ==
  /\ gpc = "graph"
  /\ fb_graph' = Graph(edges_df, fb_nodes, "Facebook Circles")
  /\ loads' = Append(loads, <<Len(fb_graph'.nodes), Len(fb_graph'.edges)>>)
  /\ gbound' = gbound \cup {"fb_graph"}
  /\ gpc' = "plot"
  /\ UNCHANGED <<gfault, gbackend, edges_df, nodes_df, fb_nodes, gshown>>
  /\ UNCHANGED <<env, fvars>>

\* fb_graph = fb_graph.redim.range(x=(-0.05, 1.05), y=(-0.05, 1.05))
\*                    .options(color_index='circle', ...); fb_graph
\* The ranges are in hundredths.
Plot ==
  /\ gpc = "plot"
  /\ fb_graph' = [fb_graph EXCEPT
                    !.xrange = <<-5, 105>>,
                    !.yrange = <<-5, 105>>,
                    !.options = {"color_index", "fig_size", "show_frame",
                                 "xaxis", "yaxis", "node_size", "cmap"}]
  /\ gshown' = gshown + 1
  /\ gpc' = "done"
  /\ UNCHANGED <<gfault, gbackend, gbound, edges_df, nodes_df, fb_nodes, loads>>
  /\ UNCHANGED <<env, fvars>>

\* The "Declaring data" cell is executed again in the same kernel.
Reload ==
  /\ gpc = "done"
  /\ Len(loads) < MaxLoads
  /\ gpc' = "read_edges"
  /\ UNCHANGED <<gfault, gbackend, gbound, edges_df, nodes_df, fb_nodes,
                 fb_graph, loads, gshown>>
  /\ UNCHANGED <<env, fvars>>

GNext ==
  \/ GImports
  \/ ReadEdgesOk
  \/ ReadEdgesFail
  \/ ReadNodesOk
  \/ ReadNodesFail
  \/ SortNodes
  \/ BuildGraph
  \/ Plot
  \/ Reload

\* ------------------------------------------------------------------------
\* Specifications
\* ------------------------------------------------------------------------

\* The fractal sampler alone, on every payload.
Init ==
  /\ resource \in Payloads
  /\ edgesFile = <<>>
  /\ nodesFile = <<>>
  /\ FStart
  /\ GStart

Next == FNext

Spec == Init /\ [][Next]_vars

\* The graph loader alone, on every pair of files.
InitGraph ==
  /\ resource = <<>>
  /\ edgesFile \in EdgeFiles
  /\ nodesFile \in NodeFiles
  /\ FStart
  /\ GStart

NextGraph == GNext

SpecGraph == InitGraph /\ [][NextGraph]_vars

\* Both notebooks, their statements interleaved in every order, on three
\* payloads and on empty and one-row files.
InitBoth ==
  /\ resource \in Patterns
  /\ edgesFile \in {<<>>, << <<1, 1>> >>}
  /\ nodesFile \in {<<>>, << <<0, 0, 1>> >>}
  /\ FStart
  /\ GStart

NextBoth == FNext \/ GNext

SpecBoth == InitBoth /\ [][NextBoth]_vars

\* ------------------------------------------------------------------------
\* Properties
\* ------------------------------------------------------------------------

Abs(x) == IF x < 0 THEN -x ELSE x

\* The rows of img whose centre is nearest to y.
NearestRows(img, y) ==
  LET d(r) == Abs(YPos(img, r) - 2 * NRows(img) * y)
  IN  {r \in 1..NRows(img) : \A q \in 1..NRows(img) : d(r) <= d(q)}

\* Every result of fractal.sample(y=y) recorded so far, with its y.
Samples ==
  UNION {{<<y, calls[y][i]>> : i \in 1..Len(calls[y])} : y \in DOMAIN calls}

\* C1: once array is bound, the N x N array fetched has become an array of
\* ceil(N/4) rows of ceil(N/4) elements, and its element (i, j), counted
\* from 0, is element (4i, 4j) of the array fetched.
C1_DownsampleShape ==
  "array" \in fbound =>
    LET N == Len(raw)
        M == (N + 3) \div 4
    IN  /\ Len(array) = M
        /\ \A i \in 1..M :
             /\ Len(array[i]) = M
             /\ \A j \in 1..M : array[i][j] = raw[4 * (i - 1) + 1][4 * (j - 1) + 1]

\* An array whose side is above 4 and no multiple of 4 has been downsampled.
C1_Witness ==
  /\ "array" \in fbound
  /\ Len(raw) > 4
  /\ Len(raw) % 4 # 0

\* C2: in every entry the comprehension has built, the threshold's level (the
\* 90th percentile of the sample at the entry's y) is at least the contour
\* level (the 60th percentile of the sample at that y); and so are the two
\* percentiles of every non-empty sample taken.
C2_PercentileMonotonic ==
  /\ \A y \in DOMAIN building :
       building[y].threshold.level >= building[y].contours.levels[1]
  /\ \A ys \in Samples :
       ys[2] # <<>> => ThresholdLevel(ys[2]) >= ContourLevel(ys[2])

\* An entry whose sample is not constant: the threshold's level is above the
\* contour level.
C2_Witness ==
  \E y \in DOMAIN building :
    /\ Len(building[y].curve) = 3
    /\ building[y].threshold.level > building[y].contours.levels[1]

C4_LoadRepeatable ==
  \A i \in 1..Len(loads) :
    /\ loads[i] = loads[1]
    /\ loads[i] = <<Len(nodesFile), Len(edgesFile)>>

\* The graph has been constructed twice from files that are not empty.
C4_Witness ==
  /\ Len(loads) = 2
  /\ loads[2][1] > 0
  /\ loads[2][2] > 0

\* What holds in every state for C5: the fetch is attempted at most once,
\* and exactly once when the run is past it or it failed; after a failed fetch no name is bound
\* and nothing was sampled, built, composed or displayed; after a failed
\* CSV read no graph has been constructed or displayed by this execution.
C5_Inv ==
  /\ fetches <= 1
  /\ fpc \notin {"imports", "fetch"} => fetches = 1
  /\ ffault = "fetch" =>
       /\ fpc = "fault"
       /\ fetches = 1
       /\ fbound = {}
       /\ array = <<>>
       /\ fractal = NoImage
       /\ calls = EmptyMap
       /\ building = EmptyMap
       /\ layouts = EmptyMap
       /\ composition = NoComposition
       /\ renders = 0
  /\ gfault # "none" =>
       /\ gpc = "fault"
       /\ gshown = Len(loads)
       /\ gfault = "read_edges" /\ loads = <<>> => gbound = {}

\* C5: a failed fetch (a failed CSV read) ends the run in a fault state:
\* the fetch was attempted exactly once and is not retried, no later
\* statement has been executed, and none is executed afterwards.
C5_FailureEndsRun ==
  /\ []C5_Inv
  /\ [][(fpc = "fault" => UNCHANGED fvars) /\ (gpc = "fault" => UNCHANGED gvars)]_vars

\* The fetch has failed and a CSV read has failed.
C5_Witness ==
  /\ ffault = "fetch"
  /\ gfault = "read_nodes"

\* C6: once layouts is bound, its keys are the 11 distinct values -0.30,
\* -0.24, ..., 0.30; every entry has exactly the four panels overlay
\* (image with sampled points), curve, threshold and contours; the curve of
\* the entry keyed y is the sample at y, and its threshold and contour
\* levels are the 90th and 60th percentile of that sample.  Once composition
\* is bound, it is a grid of 2 columns (and so 2 rows) of 4 panels, each
\* keyed by the 11 values.
C6_Composition ==
  /\ "layouts" \in fbound =>
       /\ DOMAIN layouts = {6 * i - 30 : i \in 0..10}
       /\ Cardinality(DOMAIN layouts) = 11
       /\ \A y \in DOMAIN layouts :
            /\ DOMAIN layouts[y] = {"overlay", "curve", "threshold", "contours"}
            /\ layouts[y].overlay.image = array
            /\ layouts[y].overlay.points = SampleAt(fractal, [i \in 1..19 |-> <<5 * i - 50, y>>])
            /\ layouts[y].curve = SampleY(fractal, y)
            /\ layouts[y].threshold.level = Percentile(Z(SampleY(fractal, y)), 90)
            /\ layouts[y].contours.levels = <<Percentile(Z(SampleY(fractal, y)), 60)>>
  /\ "composition" \in fbound =>
       /\ composition.cols = 2
       /\ Len(composition.panels) = 4
       /\ (Len(composition.panels) + composition.cols - 1) \div composition.cols = 2
       /\ \A p \in 1..4 : DOMAIN composition.panels[p] = DOMAIN layouts
       /\ \A y \in DOMAIN layouts :
            /\ composition.panels[1][y] = layouts[y].overlay
            /\ composition.panels[2][y] = layouts[y].curve
            /\ composition.panels[3][y] = layouts[y].threshold
            /\ composition.panels[4][y] = layouts[y].contours

\* The composition is bound, and two of its entries have different threshold
\* levels.
C6_Witness ==
  /\ "composition" \in fbound
  /\ \E y1, y2 \in DOMAIN layouts :
       layouts[y1].threshold.level # layouts[y2].threshold.level

\* C7: the data is fetched at most once and displayed at most once; every
\* sample is taken after the load and before the display, which comes after
\* all 11 entries are built; and from its binding on, array is the
\* downsampled array that was fetched, and is the array of fractal.
C7_LoadedOnceUnchanged ==
  /\ fetches <= 1
  /\ renders <= 1
  /\ "array" \in fbound =>
       /\ fetches = 1
       /\ raw = resource
       /\ array = Downsample(raw)
  /\ "fractal" \in fbound => fractal = Image(Downsample(resource))
  /\ calls # EmptyMap => "fractal" \in fbound
  /\ entry # NoEntry => "fractal" \in fbound
  /\ fpc \in {"overlay", "curve", "threshold", "contours", "layouts",
              "compose", "options"} => renders = 0 /\ "fractal" \in fbound
  /\ renders = 1 =>
       /\ fpc = "done"
       /\ DOMAIN layouts = {Ys[i] : i \in 1..Len(Ys)}
       /\ \A y \in DOMAIN layouts : Len(calls[y]) = 3

\* The composition of an array with two different rows has been displayed.
C7_Witness ==
  /\ renders = 1
  /\ Len(array) > 1
  /\ array[1] # array[2]

\* C8: in every interleaving of the two notebooks, a statement of the
\* fractal sampler leaves every variable of the graph loader (its tables,
\* its graph, its kernel) and the files unchanged, and a statement of the
\* graph loader leaves every variable of the fractal sampler (array, the
\* samples, layouts, composition, its kernel) and the resource unchanged.
C8_Independent ==
  [][(FNext => UNCHANGED <<gvars, env>>) /\ (GNext => UNCHANGED <<fvars, env>>)]_vars

\* Both notebooks have run to their end.
C8_Witness ==
  /\ fpc = "done"
  /\ gpc = "done"
  /\ fbound # {}
  /\ gbound # {}

\* C9: every sample taken at a y, and the curve of every entry, has one
\* (position, value) pair per column of array, in strictly increasing
\* position, and its values are, column by column, the elements of one row
\* of array nearest to y.
C9_SliceSample ==
  LET Good(y, s) ==
        /\ Len(s) = NCols(Image(array))
        /\ \A c \in 1..Len(s) : Len(s[c]) = 2
        /\ \A c, d \in 1..Len(s) : c < d => s[c][1] < s[d][1]
        /\ s # <<>> =>
             \E r \in NearestRows(Image(array), y) :
               \A c \in 1..Len(s) : s[c][2] = array[r][c]
  IN  /\ \A ys \in Samples : Good(ys[1], ys[2])
      /\ \A y \in DOMAIN building : Good(y, building[y].curve)

\* A sample of three columns whose row differs from another row of array.
C9_Witness ==
  \E ys \in Samples :
    /\ Len(ys[2]) = 3
    /\ \E r \in 1..Len(array) :
         \E c \in 1..3 : array[r][c] # ys[2][c][2]

\* C10: the run ends in the fault of an empty sample only if array is
\* empty; the 11 slice coordinates lie in [-0.3, 0.3] and the 19 point
\* coordinates in [-0.45, 0.45], all within the bounds of fractal; and every
\* sample taken of a non-empty array is non-empty.
C10_NoEmptySample ==
  /\ ffault = "empty_sample" => array = <<>>
  /\ Len(Ys) = 11
  /\ Len(Dots) = 19
  /\ "fractal" \in fbound =>
       /\ \A i \in 1..Len(Ys) : -30 <= Ys[i] /\ Ys[i] <= 30 /\ InY(fractal, Ys[i])
       /\ \A i \in 1..Len(dots) : -45 <= dots[i] /\ dots[i] <= 45 /\ InX(fractal, dots[i])
  /\ array # <<>> => \A ys \in Samples : ys[2] # <<>>

\* All samples of a non-empty array have been taken and the run has ended
\* without a fault.
C10_Witness ==
  /\ fpc = "done"
  /\ array # <<>>
  /\ \A i \in 1..Len(Ys) : Ys[i] \in DOMAIN calls /\ Len(calls[Ys[i]]) = 3

====
